---- MODULE Spec2Model ----
(***************************************************************************)
(* The audio capture engine (class AudioRecorder) of the voice front-end,  *)
(* together with the browser objects it drives: the MediaStream returned   *)
(* by getUserMedia and the MediaRecorder encoders bound to it.             *)
(*                                                                         *)
(* The page is single threaded.  Every action below is one task of the     *)
(* event loop: the synchronous part of a call made by the UI, the          *)
(* continuation of startRecording after its await, a timeslice             *)
(* dataavailable event, or the task an encoder queues when stop() is       *)
(* called on it (dataavailable with the flushed data, then stop).          *)
(*                                                                         *)
(* The second part is the dispatch adapter, sendAudioToBackend: the form   *)
(* it builds from a blob, a platform and a credential bundle (or the       *)
(* cookies), the request it makes and what it does with the answer.  It    *)
(* has a specification of its own, DispatchSpec, in which the recorder     *)
(* stays as constructed.                                                   *)
(*                                                                         *)
(* The third part is the two controllers that drive both: the VoiceManager *)
(* component with its buttons (UiSpec), whose handlers may overlap, and    *)
(* the VoiceAssistantProvider (ProviderSpec), which validates the          *)
(* credentials before it dispatches.                                       *)
(***************************************************************************)
EXTENDS Integers, Sequences, FiniteSets, TLC

\* bounds of the model
MaxChunks == 3      \* chunks the encoders emit in one run
MaxEncoders == 3    \* MediaRecorder objects constructed in one run
MaxStreams == 2     \* MediaStreams handed out by getUserMedia in one run
MaxHandlers == 3    \* handlers of the VoiceAssistantProvider called in one run

Encoders == 1..MaxEncoders
Streams == 1..MaxStreams
Chunks == 1..MaxChunks

VARIABLES
    stream,               \* this.stream: 0 is null, otherwise a stream id
    mediaRecorder,        \* this.mediaRecorder: 0 is null, otherwise an encoder id
    audioChunks,          \* this.audioChunks: sequence of chunk ids
    processedChunkCount,  \* this.processedChunkCount
    recState,             \* MediaRecorder.state of every encoder ("unborn" before construction)
    recStream,            \* the stream each encoder was constructed on
    handlers,             \* the stop-event handlers registered on each encoder, in order
    stopTask,             \* encoders whose stop() was called and whose stop task is queued
    liveTracks,           \* streams whose tracks have not been stopped
    created,              \* number of encoders constructed so far
    acquired,             \* number of streams handed out so far
    emitted,              \* number of non-empty chunks emitted so far
    call,                 \* the call the UI made last, and how its promise settled
    blobs,                \* blobs returned to the UI since startRecording last reset the history
    appended,             \* chunks pushed on audioChunks since startRecording last reset it
    segFailed,            \* some processSegment of this session was rejected
    stale,                \* value of emitted when cleanup last ran
    stats,                \* <<r>> when the step just taken was getRecordingStats() returning r
    send,                 \* the invocation of sendAudioToBackend: its arguments, locals and outcome
    cookies,              \* names of the cookies the browser holds
    ui,                   \* the VoiceManager component: its recordingStatus and its suspended handlers
    provider              \* the VoiceAssistantProvider: its state and the handler it is running

vars == <<stream, mediaRecorder, audioChunks, processedChunkCount, recState, recStream,
          handlers, stopTask, liveTracks, created, acquired, emitted, call, blobs,
          appended, segFailed, stale, stats, send, cookies, ui, provider>>

recorderVars ==
    <<stream, mediaRecorder, audioChunks, processedChunkCount, recState, recStream,
      handlers, stopTask, liveTracks, created, acquired, emitted, call, blobs,
      appended, segFailed, stale, stats>>

controllerVars == <<ui, provider>>

\* The whole state as one record, so that the handlers can be written as
\* functions from state to state and composed the way the code calls them.
\* The result of a stats query is gone once anything else has run.  The field
\* settled lists the promises the step has settled so far, in order; it lasts
\* for the step only.
World ==
    [stream |-> stream, mediaRecorder |-> mediaRecorder, audioChunks |-> audioChunks,
     processedChunkCount |-> processedChunkCount, recState |-> recState,
     recStream |-> recStream, handlers |-> handlers, stopTask |-> stopTask,
     liveTracks |-> liveTracks, created |-> created, acquired |-> acquired,
     emitted |-> emitted, call |-> call, blobs |-> blobs, appended |-> appended,
     segFailed |-> segFailed, stale |-> stale, stats |-> <<>>, settled |-> <<>>]

\* the recorder and the browser's media objects become those of w
Engine(w) ==
    /\ stream' = w.stream
    /\ mediaRecorder' = w.mediaRecorder
    /\ audioChunks' = w.audioChunks
    /\ processedChunkCount' = w.processedChunkCount
    /\ recState' = w.recState
    /\ recStream' = w.recStream
    /\ handlers' = w.handlers
    /\ stopTask' = w.stopTask
    /\ liveTracks' = w.liveTracks
    /\ created' = w.created
    /\ acquired' = w.acquired
    /\ emitted' = w.emitted
    /\ call' = w.call
    /\ blobs' = w.blobs
    /\ appended' = w.appended
    /\ segFailed' = w.segFailed
    /\ stale' = w.stale
    /\ stats' = w.stats

Becomes(w) == Engine(w) /\ UNCHANGED <<send, cookies, controllerVars>>

NoCall ==
    [op |-> "none", status |-> "none", err |-> "none", blob |-> <<>>,
     wasRecording |-> FALSE, cursorAt |-> 0, histAt |-> <<>>, flushed |-> 0]

\* no response yet / no outcome yet
NoResponse == [status |-> 0, body |-> ""]
NoResult == [kind |-> "none", error |-> "", status |-> 0, text |-> "", data |-> ""]

\* before sendAudioToBackend is called
SendIdle ==
    [pc |-> "idle", blobType |-> "", platform |-> "absent", config |-> [given |-> FALSE],
     baseUrl |-> "", apiEndpoint |-> <<"", "">>, formData |-> <<>>, requests |-> 0,
     response |-> NoResponse, parsed |-> FALSE, result |-> NoResult]

\* a new AudioRecorder
InitRecorder ==
    /\ stream = 0
    /\ mediaRecorder = 0
    /\ audioChunks = <<>>
    /\ processedChunkCount = 0
    /\ recState = [e \in Encoders |-> "unborn"]
    /\ recStream = [e \in Encoders |-> 0]
    /\ handlers = [e \in Encoders |-> <<>>]
    /\ stopTask = {}
    /\ liveTracks = {}
    /\ created = 0
    /\ acquired = 0
    /\ emitted = 0
    /\ call = NoCall
    /\ blobs = <<>>
    /\ appended = <<>>
    /\ segFailed = FALSE
    /\ stale = 0
    /\ stats = <<>>

\* the VoiceManager component as mounted: recordingStatus is "idle" and no
\* handler is suspended.  starts counts the startRecording handlers waiting for
\* the engine; stopLive holds the encoders whose onstop belongs to a
\* stopRecording handler that is waiting; orphan says that a waiting
\* stopRecording handler lost its onstop to a later call; dispatching counts the
\* processSegment handlers waiting for sendAudioToBackend.
UiMounted ==
    [recordingStatus |-> "idle", starts |-> 0, stopLive |-> {}, orphan |-> FALSE,
     dispatching |-> 0]

\* the VoiceAssistantProvider before it is mounted
ProviderUnmounted ==
    [recordingStatus |-> "idle", platformConfig |-> [given |-> FALSE],
     selectedTool |-> "absent", viteApiUrl |-> "", handler |-> "none", pc |-> "idle",
     calls |-> 0,
     failed |-> "none", dispatched |-> [stop |-> "", segment |-> ""]]

Init ==
    /\ InitRecorder
    /\ send = SendIdle
    /\ cookies = {}
    /\ ui = UiMounted
    /\ provider = ProviderUnmounted

\* ------------------------------------------------------------------ helpers

\* Array.prototype.slice(from): the elements at index >= from (0-based)
Slice(s, from) == SubSeq(s, from + 1, Len(s))

RECURSIVE Concat(_)
Concat(ss) == IF ss = <<>> THEN <<>> ELSE Head(ss) \o Concat(Tail(ss))

Range(s) == {s[i] : i \in 1..Len(s)}

\* isRecording(): this.mediaRecorder?.state === "recording"
isRecording(w) ==
    IF w.mediaRecorder = 0 THEN FALSE ELSE w.recState[w.mediaRecorder] = "recording"

\* getRecordingStats()
getRecordingStats(w) ==
    [totalChunks |-> Len(w.audioChunks),
     processedChunks |-> w.processedChunkCount,
     unprocessedChunks |-> Len(w.audioChunks) - w.processedChunkCount]

\* a stats query that marks what it has reported as processed
getRecordingStatsCall_marksProcessed(w) ==
    [w EXCEPT !.stats = <<getRecordingStats(w)>>,
              !.processedChunkCount = Len(w.audioChunks)]

\* a call of getRecordingStats(): it returns the stats and assigns nothing
getRecordingStatsCall(w) == [w EXCEPT !.stats = <<getRecordingStats(w)>>]

Settled(w, status, err, blob) ==
    [w EXCEPT !.call = [@ EXCEPT !.status = status, !.err = err, !.blob = blob]]

\* ------------------------------------------------- the browser's media objects

\* new MediaRecorder(s, ...): a new encoder, inactive, bound to stream s.
\* The new encoder's id is the new value of created.
NewMediaRecorder(w, s) ==
    [w EXCEPT !.created = @ + 1,
              !.recState[w.created + 1] = "inactive",
              !.recStream[w.created + 1] = s]

\* MediaRecorder.start(timeslice)
MediaRecorderStart(w, e) == [w EXCEPT !.recState[e] = "recording"]

\* MediaRecorder.stop() on a recording encoder: the state becomes inactive at
\* once, and a task is queued that fires dataavailable and then stop.
MediaRecorderStop(w, e) ==
    [w EXCEPT !.recState[e] = "inactive", !.stopTask = @ \cup {e}]

\* a handler that puts the new chunk in front of the history
OnDataAvailable_atFront(w, size) ==
    IF size > 0
    THEN [w EXCEPT !.audioChunks = <<w.emitted + 1>> \o @,
                   !.appended = Append(@, w.emitted + 1),
                   !.emitted = @ + 1]
    ELSE w

\* the ondataavailable handler both startRecording and restartRecording install:
\* a non-empty chunk is pushed on the history, an empty one is dropped
OnDataAvailable(w, size) ==
    IF size > 0
    THEN [w EXCEPT !.audioChunks = Append(@, w.emitted + 1),
                   !.appended = Append(@, w.emitted + 1),
                   !.emitted = @ + 1]
    ELSE w

\* the sizes the next chunk can have: empty, or non-empty while the run's
\* supply of chunks lasts
ChunkSizes(w) == IF w.emitted < MaxChunks THEN {0, 1} ELSE {0}

\* ------------------------------------------------------------ AudioRecorder

\* a cleanup that leaves the chunk history in place
cleanup_keepsHistory(w) ==
    [w EXCEPT !.liveTracks = IF w.stream # 0 THEN @ \ {w.stream} ELSE @,
              !.stream = 0,
              !.mediaRecorder = 0,
              !.processedChunkCount = 0,
              !.stale = w.emitted]

\* a cleanup that leaves the cursor in place
cleanup_keepsCursor(w) ==
    [w EXCEPT !.liveTracks = IF w.stream # 0 THEN @ \ {w.stream} ELSE @,
              !.stream = 0,
              !.mediaRecorder = 0,
              !.audioChunks = <<>>,
              !.stale = w.emitted]

\* cleanup()
cleanup(w) ==
    [w EXCEPT !.liveTracks = IF w.stream # 0 THEN @ \ {w.stream} ELSE @,
              !.stream = 0,
              !.mediaRecorder = 0,
              !.audioChunks = <<>>,
              !.processedChunkCount = 0,
              !.stale = w.emitted]

\* resolve / reject of the promise the pending call returned
Resolve(w, op, blob) ==
    LET w1 == [w EXCEPT !.settled = Append(@, [op |-> op, ok |-> TRUE])]
    IN  IF w.call.op = op /\ w.call.status = "pending"
        THEN [Settled(w1, "resolved", "none", blob)
                EXCEPT !.blobs = IF op = "start" THEN @ ELSE Append(@, blob)]
        ELSE w1

Reject(w, op, err) ==
    LET w1 == [w EXCEPT !.settled = Append(@, [op |-> op, ok |-> FALSE])]
    IN  IF w.call.op = op /\ w.call.status = "pending"
        THEN [Settled(w1, "rejected", err, <<>>)
                EXCEPT !.segFailed = @ \/ op = "segment"]
        ELSE w1

\* What the environment does to a start or a restart once the stream is there:
\* the MediaRecorder constructor throws, MediaRecorder.start throws, or neither.
Outcomes == {"ok", "ctorThrows", "startThrows"}

\* startRecording() after `await getUserMedia(...)` has resolved with stream s
StartRecordingBody(w, s, outcome) ==
    LET w1 == [w EXCEPT !.stream = s]
        w2 == NewMediaRecorder(w1, s)
        w3 == [w2 EXCEPT !.mediaRecorder = w2.created,
                         !.audioChunks = <<>>,
                         !.processedChunkCount = 0,
                         !.blobs = <<>>, !.appended = <<>>, !.segFailed = FALSE]
    IN  IF outcome = "ctorThrows" THEN Reject(w1, "start", "EncoderError")
        ELSE IF outcome = "startThrows" THEN Reject(w3, "start", "EncoderError")
        ELSE Resolve(MediaRecorderStart(w3, w3.mediaRecorder), "start", <<>>)

\* a restart that, like startRecording, clears the history and the cursor
restartRecording_resets(w, s, outcome) ==
    LET w1 == NewMediaRecorder(w, s)
        w2 == [w1 EXCEPT !.mediaRecorder = w1.created,
                         !.audioChunks = <<>>,
                         !.processedChunkCount = 0]
    IN  IF s = 0 THEN [w |-> w, err |-> "NoStream"]
        ELSE IF outcome = "ctorThrows" THEN [w |-> w, err |-> "EncoderError"]
        ELSE IF outcome = "startThrows" THEN [w |-> w2, err |-> "EncoderError"]
        ELSE [w |-> MediaRecorderStart(w2, w2.mediaRecorder), err |-> "none"]

\* restartRecording(mimeType, s): the new state and the error thrown ("none" if none)
restartRecording(w, s, outcome) ==
    LET w1 == NewMediaRecorder(w, s)
        w2 == [w1 EXCEPT !.mediaRecorder = w1.created]
    IN  IF s = 0 THEN [w |-> w, err |-> "NoStream"]
        ELSE IF outcome = "ctorThrows" THEN [w |-> w, err |-> "EncoderError"]
        ELSE IF outcome = "startThrows" THEN [w |-> w2, err |-> "EncoderError"]
        ELSE [w |-> MediaRecorderStart(w2, w2.mediaRecorder), err |-> "none"]

\* a stop handler that returns the whole history instead of its unprocessed part
OnStop_wholeHistory(w) == Resolve(cleanup(w), "stop", w.audioChunks)

\* the onstop handler stopRecording installs
OnStop(w) ==
    LET unprocessedChunks == Slice(w.audioChunks, w.processedChunkCount)
    IN  Resolve(cleanup(w), "stop", unprocessedChunks)

\* a handleStop that forgets to advance the cursor
AdvanceCursor_forgotten(w) == w

\* a handleStop that counts one more processed chunk instead of jumping to the
\* end of the history
AdvanceCursor_byOne(w) == [w EXCEPT !.processedChunkCount = @ + 1]

\* handleStop: this.processedChunkCount = this.audioChunks.length
AdvanceCursor(w) == [w EXCEPT !.processedChunkCount = Len(w.audioChunks)]

RemoveHandler(hs, h) == SelectSeq(hs, LAMBDA x : x # h)

\* the handleStop listener processSegment installs; h holds what it captured
\* when processSegment was called: unprocessedChunks and currentStream
HandleStop(w, h, outcome) ==
    LET segmentBlob == h.unprocessedChunks
        w1 == AdvanceCursor(w)
        r  == restartRecording(w1, h.currentStream, outcome)
        w2 == IF r.err = "none"
              THEN Resolve(r.w, "segment", segmentBlob)
              ELSE Reject(r.w, "segment", r.err)
    IN  IF w2.mediaRecorder # 0
        THEN [w2 EXCEPT !.handlers[w2.mediaRecorder] = RemoveHandler(@, h)]
        ELSE w2

RunHandler(w, h, outcome) ==
    IF h.kind = "onstop" THEN OnStop(w) ELSE HandleStop(w, h, outcome)

\* dispatch of the stop event on encoder e to the handlers registered when the
\* dispatch began, in registration order, skipping those removed meanwhile
RECURSIVE Dispatch(_, _, _, _)
Dispatch(w, e, hs, outcome) ==
    IF hs = <<>> THEN w
    ELSE IF Head(hs) \in Range(w.handlers[e])
         THEN Dispatch(RunHandler(w, Head(hs), outcome), e, Tail(hs), outcome)
         ELSE Dispatch(w, e, Tail(hs), outcome)

\* `recorder.onstop = f`: replaces the attribute's handler where it stands, or
\* registers it last when the attribute was empty
SetOnstop(hs) ==
    IF \E i \in 1..Len(hs) : hs[i].kind = "onstop" THEN hs
    ELSE Append(hs, [kind |-> "onstop", unprocessedChunks |-> <<>>, currentStream |-> 0])

\* The record of a call: what the UI called, whether the engine was recording
\* and where the cursor stood when it did.  histAt and flushed are filled in
\* when an encoder's stop task runs while the call is pending: the history as
\* the stop event finds it, and the chunk the encoder flushed (0 if none).
NewCall(w, op) ==
    [NoCall EXCEPT !.op = op, !.status = "pending", !.wasRecording = isRecording(w),
                   !.cursorAt = w.processedChunkCount]

Observed(w, size) ==
    IF w.call.status = "pending"
    THEN [w EXCEPT !.call = [@ EXCEPT !.histAt = w.audioChunks,
                                      !.flushed = IF size > 0 THEN w.emitted ELSE 0]]
    ELSE w

\* a guard that tests the encoder's presence but not its state
SegmentRefused_presenceOnly(w) == w.mediaRecorder = 0

\* the guard of processSegment
SegmentRefused(w) ==
    IF w.mediaRecorder = 0 THEN TRUE ELSE w.recState[w.mediaRecorder] # "recording"

\* the guard of stopRecording
StopRefused(w) == w.mediaRecorder = 0

\* stopRecording(), up to the return of the promise.  stop() on an inactive
\* encoder throws InvalidStateError in older browsers (the promise is rejected
\* with it) and does nothing in newer ones (the promise stays pending).
stopRecording(w, oldStopThrows) ==
    LET w0 == [w EXCEPT !.call = NewCall(w, "stop")]
        e  == w.mediaRecorder
        w1 == [w0 EXCEPT !.handlers[e] = SetOnstop(@)]
    IN  IF StopRefused(w) THEN Reject(w0, "stop", "NoActiveRecording")
        ELSE IF w.recState[e] = "recording" THEN MediaRecorderStop(w1, e)
        ELSE IF oldStopThrows THEN Reject(w1, "stop", "InvalidStateError")
        ELSE w1

\* processSegment(), up to the return of the promise
processSegment(w) ==
    LET w0 == [w EXCEPT !.call = NewCall(w, "segment")]
        e  == w.mediaRecorder
        h  == [kind |-> "handleStop",
               unprocessedChunks |-> Slice(w.audioChunks, w.processedChunkCount),
               currentStream |-> w.stream]
        w1 == [w0 EXCEPT !.handlers[e] = Append(@, h)]
    IN  IF SegmentRefused(w) THEN Reject(w0, "segment", "NoActiveRecording")
        ELSE MediaRecorderStop(w1, e)

\* ------------------------------------------------------------------ actions

\* The engine has no mutual exclusion of its own; its callers await the promise
\* of one call before they make the next, and the calls modelled here follow
\* that contract: none is made while the promise of the previous one is pending.
NoCallPending == call.status # "pending"

\* the UI calls startRecording(): it runs up to `await getUserMedia(...)`
StartRecordingCall ==
    /\ NoCallPending
    /\ acquired < MaxStreams
    /\ created < MaxEncoders
    /\ Becomes([World EXCEPT !.call = NewCall(World, "start")])

\* getUserMedia rejects (permission denied, no device): the catch block rethrows
GetUserMediaRejects ==
    /\ call.op = "start" /\ call.status = "pending"
    /\ Becomes(Reject(World, "start", "DeviceError"))

\* getUserMedia resolves with a new stream and startRecording runs to its end
GetUserMediaResolves ==
    /\ call.op = "start" /\ call.status = "pending"
    /\ \E outcome \in Outcomes :
         LET s  == acquired + 1
             w0 == [World EXCEPT !.acquired = s, !.liveTracks = @ \cup {s}]
         IN  Becomes(StartRecordingBody(w0, s, outcome))

\* the UI calls stopRecording()
StopRecordingCall ==
    /\ NoCallPending
    /\ \E oldStopThrows \in BOOLEAN : Becomes(stopRecording(World, oldStopThrows))

\* the UI calls processSegment()
ProcessSegmentCall ==
    /\ NoCallPending
    /\ (IF SegmentRefused(World) THEN TRUE ELSE created < MaxEncoders)
    /\ Becomes(processSegment(World))

\* a recording encoder delivers a timeslice chunk
ChunkArrives ==
    \E e \in Encoders :
        /\ recState[e] = "recording"
        /\ recStream[e] \in liveTracks
        /\ \E size \in ChunkSizes(World) : Becomes(OnDataAvailable(World, size))

\* the task queued by stop() on encoder e: dataavailable with what the encoder
\* still held, then the stop event
EncoderStopTask ==
    \E e \in stopTask, outcome \in Outcomes :
        \E size \in ChunkSizes(World) :
            LET w0 == [World EXCEPT !.stopTask = @ \ {e}]
                w1 == Observed(OnDataAvailable(w0, size), size)
            IN  Becomes(Dispatch(w1, e, w1.handlers[e], outcome))

\* the UI reads getRecordingStats(); it is synchronous and asks for no state,
\* so it can run between any two steps
GetRecordingStatsCall ==
    \E w \in {getRecordingStatsCall(World)} : Becomes(w)

Next ==
    \/ GetRecordingStatsCall
    \/ StartRecordingCall
    \/ GetUserMediaRejects
    \/ GetUserMediaResolves
    \/ StopRecordingCall
    \/ ProcessSegmentCall
    \/ ChunkArrives
    \/ EncoderStopTask

Spec == Init /\ [][Next]_vars

\* The task an encoder has queued is run by the event loop sooner or later.
LiveSpec == Spec /\ WF_vars(EncoderStopTask)

TypeOK ==
    /\ stream \in {0} \cup Streams
    /\ mediaRecorder \in {0} \cup Encoders
    /\ audioChunks \in Seq(Chunks)
    /\ processedChunkCount \in 0..MaxChunks
    /\ recState \in [Encoders -> {"unborn", "inactive", "recording"}]
    /\ recStream \in [Encoders -> {0} \cup Streams]
    /\ stopTask \subseteq Encoders
    /\ liveTracks \subseteq Streams
    /\ created \in 0..MaxEncoders
    /\ acquired \in 0..MaxStreams
    /\ emitted \in 0..MaxChunks
    /\ call.op \in {"none", "start", "stop", "segment"}
    /\ call.status \in {"none", "pending", "resolved", "rejected"}
    /\ appended \in Seq(Chunks)
    /\ segFailed \in BOOLEAN
    /\ stale \in 0..MaxChunks
    /\ Len(stats) <= 1

\* ------------------------------------------------------- sendAudioToBackend

\* the platform argument; "absent" is undefined
Platforms == {"trello", "linear", "asana", "notion", "absent"}

\* the credential bundles of the three variants of PlatformConfig
TrelloBundle == [given |-> TRUE, apiKey |-> "trello-key", token |-> "trello-token",
                 boardId |-> "trello-board"]
LinearBundle == [given |-> TRUE, apiKey |-> "linear-key", workspaceId |-> "linear-workspace"]
AsanaBundle == [given |-> TRUE, personalAccessToken |-> "asana-pat",
                projectId |-> "asana-project"]

\* the config argument; [given |-> FALSE] is undefined
Configs == {[given |-> FALSE], TrelloBundle, LinearBundle, AsanaBundle}

\* the type of the audio blob
BlobTypes == {"audio/webm;codecs=opus", "audio/mp4"}

\* the baseUrl argument: its default is VITE_API_URL or, without it, localhost
BaseUrls == {"VITE_API_URL", "http://localhost:8000"}

\* what the backend can answer
Statuses == {200, 404, 500}
Bodies == {"{\"transcript\":\"hi\"}", "{\"success\":false}", "<html>Bad Gateway</html>", ""}

CookieNames == {"apiKey", "token", "boardId", "workspaceId", "personalAccessToken", "projectId"}

\* the value each cookie has when the browser holds it
CookieValue ==
    [apiKey |-> "cookie-apiKey", token |-> "cookie-token", boardId |-> "cookie-boardId",
     workspaceId |-> "cookie-workspaceId",
     personalAccessToken |-> "cookie-personalAccessToken",
     projectId |-> "cookie-projectId"]

\* Cookies.get(name) || ""
CookieOrEmpty(jar, name) == IF name \in jar THEN CookieValue[name] ELSE ""

\* FormData.append(name, config.field): a field the bundle lacks reads as
\* undefined, which the form stores as the string "undefined"
Field(config, f) == IF f \in DOMAIN config THEN config[f] ELSE "undefined"

Entry(name, value) == [name |-> name, value |-> value]

\* an endpoint that ignores the platform
apiEndpoint_generic(baseUrl, platform) == <<baseUrl, "/send-audio">>

\* the endpoint: platform === "linear" ? base/send-audio-linear : base/send-audio
apiEndpoint(baseUrl, platform) ==
    IF platform = "linear" THEN <<baseUrl, "/send-audio-linear">>
    ELSE <<baseUrl, "/send-audio">>

\* audioBlob.type.includes('webm') ? 'recording.webm' : 'recording.wav'
filename(blobType) ==
    IF blobType \in {"audio/webm;codecs=opus", "audio/webm"} THEN "recording.webm"
    ELSE "recording.wav"

\* credential fields in which the asana bundle is sent under its own field names
ConfigFields_ownNames(platform, config) ==
    IF platform = "trello"
    THEN <<Entry("apiKey", Field(config, "apiKey")), Entry("token", Field(config, "token")),
           Entry("boardId", Field(config, "boardId"))>>
    ELSE IF platform = "linear"
    THEN <<Entry("apiKey", Field(config, "apiKey")),
           Entry("workspaceId", Field(config, "workspaceId"))>>
    ELSE IF platform = "asana"
    THEN <<Entry("personalAccessToken", Field(config, "personalAccessToken")),
           Entry("projectId", Field(config, "projectId"))>>
    ELSE <<>>

\* the fields appended when a config is given
ConfigFields(platform, config) ==
    IF platform = "trello"
    THEN <<Entry("apiKey", Field(config, "apiKey")), Entry("token", Field(config, "token")),
           Entry("boardId", Field(config, "boardId"))>>
    ELSE IF platform = "linear"
    THEN <<Entry("apiKey", Field(config, "apiKey")),
           Entry("workspaceId", Field(config, "workspaceId"))>>
    ELSE IF platform = "asana"
    THEN <<Entry("asanaToken", Field(config, "personalAccessToken")),
           Entry("asanaProjectId", Field(config, "projectId"))>>
    ELSE <<>>

\* cookie fields in which every field is read from the cookie of its own name
CookieFields_sameNames(jar) ==
    <<Entry("apiKey", CookieOrEmpty(jar, "apiKey")),
      Entry("token", CookieOrEmpty(jar, "token")),
      Entry("boardId", CookieOrEmpty(jar, "boardId")),
      Entry("workspaceId", CookieOrEmpty(jar, "workspaceId")),
      Entry("asanaToken", CookieOrEmpty(jar, "asanaToken")),
      Entry("asanaProjectId", CookieOrEmpty(jar, "asanaProjectId"))>>

\* the fields appended when no config is given
CookieFields(jar) ==
    <<Entry("apiKey", CookieOrEmpty(jar, "apiKey")),
      Entry("token", CookieOrEmpty(jar, "token")),
      Entry("boardId", CookieOrEmpty(jar, "boardId")),
      Entry("workspaceId", CookieOrEmpty(jar, "workspaceId")),
      Entry("asanaToken", CookieOrEmpty(jar, "personalAccessToken")),
      Entry("asanaProjectId", CookieOrEmpty(jar, "projectId"))>>

\* the form: the audio, the platform if there is one, the credentials
BuildFormData(blobType, platform, config, jar) ==
    <<Entry("audio", filename(blobType))>>
    \o (IF platform # "absent" THEN <<Entry("platform", platform)>> ELSE <<>>)
    \o (IF config.given THEN ConfigFields(platform, config) ELSE CookieFields(jar))

\* sendAudioToBackend(...) up to `await fetch(apiEndpoint, ...)`
sendAudioToBackend(blobType, platform, config, baseUrl, jar) ==
    [SendIdle EXCEPT !.pc = "fetching",
                     !.blobType = blobType, !.platform = platform, !.config = config,
                     !.baseUrl = baseUrl,
                     !.apiEndpoint = apiEndpoint(baseUrl, platform),
                     !.formData = BuildFormData(blobType, platform, config, jar),
                     !.requests = 1]

Throws(d, error, status, text) ==
    [d EXCEPT !.pc = "done",
              !.result = [kind |-> "throws", error |-> error, status |-> status,
                          text |-> text, data |-> ""]]

\* a fetch that is made again when it has failed
FetchRejected_retries(d) ==
    IF d.requests < 2 THEN [d EXCEPT !.requests = @ + 1]
    ELSE Throws(d, "fetch failed", 0, "")

\* fetch rejects (network failure): the catch block rethrows
FetchRejected(d) == Throws(d, "fetch failed", 0, "")

\* fetch resolves: the function goes on to `await response.text()`
FetchResolved(d, status, body) ==
    [d EXCEPT !.pc = "reading", !.response = [status |-> status, body |-> body]]

\* response.ok
ResponseOk(status) == status \in 200..299

\* JSON.parse(text) succeeds
IsJson(text) == text \in {"{\"transcript\":\"hi\"}", "{\"success\":false}"}

\* a function that parses the body before it looks at the status
TextRead_parsesFirst(d) ==
    LET r == d.response
        d1 == [d EXCEPT !.parsed = TRUE]
    IN  IF ~IsJson(r.body) THEN Throws(d1, "Backend returned invalid JSON", 0, "")
        ELSE IF ~ResponseOk(r.status) THEN Throws(d1, "Backend error", r.status, r.body)
        ELSE [d1 EXCEPT !.pc = "done",
                        !.result = [kind |-> "returns", error |-> "", status |-> r.status,
                                    text |-> r.body, data |-> r.body]]

\* response.text() resolves: the status is tested, the text parsed and the new
\* Response with its data returned
TextRead(d) ==
    LET r == d.response
        d1 == [d EXCEPT !.parsed = TRUE]
    IN  IF ~ResponseOk(r.status) THEN Throws(d, "Backend error", r.status, r.body)
        ELSE IF ~IsJson(r.body) THEN Throws(d1, "Backend returned invalid JSON", 0, "")
        ELSE [d1 EXCEPT !.pc = "done",
                        !.result = [kind |-> "returns", error |-> "", status |-> r.status,
                                    text |-> r.body, data |-> r.body]]

\* response.text() rejects (the connection drops while the body is read)
TextRejected(d) == Throws(d, "body read failed", 0, "")

\* a caller invokes sendAudioToBackend
SendAudioCall ==
    /\ send.pc \in {"idle", "done"}
    /\ \E blobType \in BlobTypes, platform \in Platforms, config \in Configs,
          baseUrl \in BaseUrls :
          send' = sendAudioToBackend(blobType, platform, config, baseUrl, cookies)
    /\ UNCHANGED <<recorderVars, cookies, controllerVars>>

FetchRejects ==
    /\ send.pc = "fetching"
    /\ send' = FetchRejected(send)
    /\ UNCHANGED <<recorderVars, cookies, controllerVars>>

FetchResolves ==
    /\ send.pc = "fetching"
    /\ \E status \in Statuses, body \in Bodies : send' = FetchResolved(send, status, body)
    /\ UNCHANGED <<recorderVars, cookies, controllerVars>>

TextResolves ==
    /\ send.pc = "reading"
    /\ send' = TextRead(send)
    /\ UNCHANGED <<recorderVars, cookies, controllerVars>>

TextRejects ==
    /\ send.pc = "reading"
    /\ send' = TextRejected(send)
    /\ UNCHANGED <<recorderVars, cookies, controllerVars>>

\* the browser holds any of the cookies the fallback reads
DispatchInit ==
    /\ InitRecorder
    /\ send = SendIdle
    /\ cookies \in SUBSET CookieNames
    /\ ui = UiMounted
    /\ provider = ProviderUnmounted

DispatchNext ==
    \/ SendAudioCall
    \/ FetchRejects
    \/ FetchResolves
    \/ TextResolves
    \/ TextRejects

DispatchSpec == DispatchInit /\ [][DispatchNext]_vars

\* ------------------------------------------------------------- VoiceManager
\* The component with the Start, Stop and Process Segment buttons.  It is taken
\* as configured (isConfigured is true): until then the Start button is
\* disabled and nothing can be recorded.

\* the encoders whose stop event a processSegment promise is waiting for
SegmentsPending(w) ==
    {e \in w.stopTask : \E i \in 1..Len(w.handlers[e]) : w.handlers[e][i].kind = "handleStop"}

\* encoders that the pending starts and segments will still construct
Reserved(w, u) == u.starts + Cardinality(SegmentsPending(w))

\* What a handler of the component does when the engine promise it awaits is
\* settled by event ev (on encoder e, for a stop event):
\*   startRecording:  resolved -> setRecordingStatus("recording"); rejected -> a log
\*   stopRecording:   either way setRecordingStatus("idle"), then, if resolved,
\*                    the dispatch, which sets no state of the component
\*   processSegment:  resolved -> the dispatch is awaited; rejected ->
\*                    setRecordingStatus("recording")
\* The onstop of an encoder resolves the promise of the stopRecording that
\* installed it last; if that promise is settled already, nothing resumes.
VoiceManager_resumed(u, e, ev) ==
    IF ev.op = "start"
    THEN [u EXCEPT !.starts = @ - 1,
                   !.recordingStatus = IF ev.ok THEN "recording" ELSE @]
    ELSE IF ev.op = "stop"
    THEN IF ~ev.ok THEN [u EXCEPT !.recordingStatus = "idle"]
         ELSE IF e \in u.stopLive
         THEN [u EXCEPT !.recordingStatus = "idle", !.stopLive = @ \ {e}]
         ELSE u
    ELSE IF ev.ok THEN [u EXCEPT !.dispatching = @ + 1]
         ELSE [u EXCEPT !.recordingStatus = "recording"]

\* the handlers resumed by the promises a step has settled, in order
RECURSIVE VoiceManager_settled(_, _, _)
VoiceManager_settled(u, e, evs) ==
    IF evs = <<>> THEN u
    ELSE VoiceManager_settled(VoiceManager_resumed(u, e, Head(evs)), e, Tail(evs))

\* disabled={recordingStatus !== "idle" || !isConfigured}
StartEnabled(u) == u.recordingStatus = "idle"

\* disabled={recordingStatus !== "recording"}, for Stop and for Process Segment
StopEnabled(u) == u.recordingStatus = "recording"

\* a click on Start: startRecording() of the component calls the engine and
\* waits
ClickStart ==
    /\ StartEnabled(ui)
    /\ acquired + ui.starts < MaxStreams
    /\ created + Reserved(World, ui) < MaxEncoders
    /\ Engine([World EXCEPT !.call = NewCall(World, "start")])
    /\ ui' = [ui EXCEPT !.starts = @ + 1]
    /\ UNCHANGED <<send, cookies, provider>>

\* getUserMedia rejects for one of the waiting starts
UiGetUserMediaRejects ==
    /\ ui.starts > 0
    /\ LET w == Reject(World, "start", "DeviceError")
       IN  Engine(w) /\ ui' = VoiceManager_settled(ui, 0, w.settled)
    /\ UNCHANGED <<send, cookies, provider>>

\* getUserMedia resolves for one of the waiting starts
UiGetUserMediaResolves ==
    /\ ui.starts > 0
    /\ \E outcome \in Outcomes :
         LET s  == acquired + 1
             w0 == [World EXCEPT !.acquired = s, !.liveTracks = @ \cup {s}]
             w  == StartRecordingBody(w0, s, outcome)
             ev == [op |-> "start", ok |-> outcome = "ok"]
         IN  Engine(w) /\ ui' = VoiceManager_settled(ui, 0, <<ev>>)
    /\ UNCHANGED <<send, cookies, provider>>

\* a click on Stop: stopRecording() of the component calls the engine.  The
\* onstop the engine installs replaces the one an earlier stopRecording left on
\* the same encoder, whose promise is then never settled.
ClickStop ==
    /\ StopEnabled(ui)
    /\ \E oldStopThrows \in BOOLEAN :
         LET e  == mediaRecorder
             w  == stopRecording(World, oldStopThrows)
             u1 == IF e = 0 THEN ui
                   ELSE [ui EXCEPT !.orphan = @ \/ e \in ui.stopLive,
                                   !.stopLive = IF w.settled = <<>> THEN @ \cup {e}
                                                ELSE @ \ {e}]
         IN  Engine(w) /\ ui' = VoiceManager_settled(u1, e, w.settled)
    /\ UNCHANGED <<send, cookies, provider>>

\* a click on Process Segment: processSegment() of the component sets
\* recordingStatus to "processing", reads the stats and calls the engine
ClickSegment ==
    /\ StopEnabled(ui)
    /\ (IF SegmentRefused(World) THEN TRUE
        ELSE created + Reserved(World, ui) < MaxEncoders)
    /\ LET w  == processSegment(World)
           u1 == [ui EXCEPT !.recordingStatus = "processing"]
       IN  Engine(w) /\ ui' = VoiceManager_settled(u1, mediaRecorder, w.settled)
    /\ UNCHANGED <<send, cookies, provider>>

\* the stop task of encoder e, and the handlers of the component it resumes
UiEncoderStopTask ==
    /\ \E e \in stopTask, outcome \in Outcomes :
         \E size \in ChunkSizes(World) :
            LET w0 == [World EXCEPT !.stopTask = @ \ {e}]
                w1 == Observed(OnDataAvailable(w0, size), size)
                w  == Dispatch(w1, e, w1.handlers[e], outcome)
            IN  Engine(w) /\ ui' = VoiceManager_settled(ui, e, w.settled)
    /\ UNCHANGED <<send, cookies, provider>>

\* sendAudioToBackend settles for a waiting processSegment: whether it returned
\* or threw, the handler ends on setRecordingStatus("recording")
UiDispatchSettles ==
    /\ ui.dispatching > 0
    /\ ui' = [ui EXCEPT !.dispatching = @ - 1, !.recordingStatus = "recording"]
    /\ UNCHANGED <<recorderVars, send, cookies, provider>>

UiNext ==
    \/ ClickStart
    \/ UiGetUserMediaRejects
    \/ UiGetUserMediaResolves
    \/ ClickStop
    \/ ClickSegment
    \/ ChunkArrives
    \/ UiEncoderStopTask
    \/ UiDispatchSettles

UiSpec == Init /\ [][UiNext]_vars

\* ---------------------------------------------------- VoiceAssistantProvider
\* The provider hands startRecording, stopRecording and processSegment to the
\* components below it.  They are taken to call one of them at a time: none is
\* called while another is running.

BASE_URL == "https://pushing-1.onrender.com"

\* import.meta.env.VITE_API_URL: not set, or set to the deployed backend
ViteApiUrls == {"", "https://pushing-1.onrender.com"}

\* the default of the baseUrl parameter of sendAudioToBackend
DefaultBaseUrl(viteApiUrl) ==
    IF viteApiUrl # "" THEN viteApiUrl ELSE "http://localhost:8000"

\* The selectedTool and the platformConfig the provider can hold: none; the
\* full bundle of each platform; bundles in which a field is missing, empty or
\* the string "undefined"; a bundle without platform, for which selectedTool
\* decides; a bundle whose platform differs from selectedTool.
ProviderSettings ==
    { [selectedTool |-> "absent", platformConfig |-> [given |-> FALSE]],
      [selectedTool |-> "trello",
       platformConfig |-> [given |-> TRUE, platform |-> "trello", apiKey |-> "trello-key",
                           token |-> "trello-token", boardId |-> "trello-board"]],
      [selectedTool |-> "trello",
       platformConfig |-> [given |-> TRUE, apiKey |-> "trello-key",
                           token |-> "undefined", boardId |-> "trello-board"]],
      [selectedTool |-> "trello",
       platformConfig |-> [given |-> TRUE, platform |-> "trello", apiKey |-> "trello-key",
                           token |-> "trello-token"]],
      [selectedTool |-> "linear",
       platformConfig |-> [given |-> TRUE, platform |-> "linear", apiKey |-> "linear-key",
                           workspaceId |-> "linear-workspace"]],
      [selectedTool |-> "trello",
       platformConfig |-> [given |-> TRUE, platform |-> "linear", apiKey |-> "linear-key"]],
      [selectedTool |-> "linear",
       platformConfig |-> [given |-> TRUE, platform |-> "linear", apiKey |-> "",
                           workspaceId |-> "linear-workspace"]],
      [selectedTool |-> "asana",
       platformConfig |-> [given |-> TRUE, platform |-> "asana",
                           personalAccessToken |-> "asana-pat",
                           projectId |-> "asana-project"]] }

\* platformConfig?.platform || selectedTool
PlatformOf(p) ==
    IF p.platformConfig.given /\ "platform" \in DOMAIN p.platformConfig
    THEN p.platformConfig.platform
    ELSE p.selectedTool

\* !(!config.f || config.f === 'undefined')
Present(config, f) ==
    IF f \in DOMAIN config THEN config[f] \notin {"", "undefined"} ELSE FALSE

\* a validation that looks for missing fields but not for the placeholder
Validated_presenceOnly(p) ==
    /\ p.platformConfig.given
    /\ PlatformOf(p) = "trello" =>
          \A f \in {"apiKey", "boardId", "token"} : f \in DOMAIN p.platformConfig
    /\ PlatformOf(p) = "linear" =>
          \A f \in {"apiKey", "workspaceId"} : f \in DOMAIN p.platformConfig

\* the validation stopRecording and processSegment make before they dispatch
Validated(p) ==
    /\ p.platformConfig.given
    /\ PlatformOf(p) = "trello" =>
          \A f \in {"apiKey", "boardId", "token"} : Present(p.platformConfig, f)
    /\ PlatformOf(p) = "linear" =>
          \A f \in {"apiKey", "workspaceId"} : Present(p.platformConfig, f)

\* the handler has run to its end; what failed in it, if anything
Finished(p, failed) == [p EXCEPT !.pc = "done", !.failed = failed]

\* the base URL of stopRecording's dispatch: the argument is not given
StopBaseUrl(p) == DefaultBaseUrl(p.viteApiUrl)

\* the base URL of processSegment's dispatch
SegmentBaseUrl(p) == BASE_URL

\* The handler that awaits the engine goes on, the promise having resolved (ok)
\* or been rejected:
\*   startRecording:  setRecordingStatus('recording'), or an error log
\*   stopRecording:   setRecordingStatus('idle') either way; if resolved, the
\*                    validation, then the dispatch or an error log and return
\*   processSegment:  if rejected, setRecordingStatus('recording'); if resolved,
\*                    the validation, then the dispatch or an error log and return
Provider_engineSettled(p, ok) ==
    IF p.handler = "start"
    THEN IF ok THEN Finished([p EXCEPT !.recordingStatus = "recording"], "none")
         ELSE Finished(p, "start")
    ELSE IF p.handler = "stop"
    THEN LET p1 == [p EXCEPT !.recordingStatus = "idle"]
         IN  IF ~ok THEN Finished(p1, "stop")
             ELSE IF ~Validated(p1) THEN Finished(p1, "validation")
             ELSE [p1 EXCEPT !.pc = "dispatch",
                             !.dispatched = [@ EXCEPT !.stop = StopBaseUrl(p)]]
    ELSE IF ~ok THEN Finished([p EXCEPT !.recordingStatus = "recording"], "segment")
         ELSE IF ~Validated(p) THEN Finished(p, "validation")
         ELSE [p EXCEPT !.pc = "dispatch",
                        !.dispatched = [@ EXCEPT !.segment = SegmentBaseUrl(p)]]

\* the handler resumed by the promises a step of the engine has settled
Provider_resumed(p, evs) ==
    IF evs = <<>> THEN p ELSE Provider_engineSettled(p, evs[Len(evs)].ok)

\* the dispatch the resumed handler makes, if it makes one
Provider_dispatch(p, d, blobType, jar) ==
    IF p.pc = "dispatch"
    THEN sendAudioToBackend(blobType, PlatformOf(p), p.platformConfig,
                            IF p.handler = "stop" THEN p.dispatched.stop
                            ELSE p.dispatched.segment, jar)
    ELSE d

\* data.success === false
SaysFailure(data) == data = "{\"success\":false}"

\* a handler that, when its dispatch has failed, cleans the recorder up
Provider_dispatchSettled_cleansUp(w, p, d) ==
    IF d.pc # "done" THEN [w |-> w, p |-> p]
    ELSE IF d.result.kind = "throws"
    THEN [w |-> cleanup(w),
          p |-> Finished([p EXCEPT !.recordingStatus =
                              IF p.handler = "segment" THEN "recording" ELSE @],
                         "dispatch")]
    ELSE IF SaysFailure(d.result.data) THEN [w |-> w, p |-> Finished(p, "backend")]
    ELSE [w |-> w,
          p |-> Finished([p EXCEPT !.recordingStatus =
                              IF p.handler = "segment" THEN "recording" ELSE @],
                         "none")]

\* The handler that awaits sendAudioToBackend goes on once the invocation d is
\* done.  It threw: an error log and, in processSegment,
\* setRecordingStatus('recording').  It returned: res.json() reads the data; if
\* data.success is false, an error log and return; otherwise the logs and, in
\* processSegment, setRecordingStatus('recording').  The recorder w is not used.
Provider_dispatchSettled(w, p, d) ==
    IF d.pc # "done" THEN [w |-> w, p |-> p]
    ELSE IF d.result.kind = "throws"
    THEN [w |-> w,
          p |-> Finished([p EXCEPT !.recordingStatus =
                              IF p.handler = "segment" THEN "recording" ELSE @],
                         "dispatch")]
    ELSE IF SaysFailure(d.result.data) THEN [w |-> w, p |-> Finished(p, "backend")]
    ELSE [w |-> w,
          p |-> Finished([p EXCEPT !.recordingStatus =
                              IF p.handler = "segment" THEN "recording" ELSE @],
                         "none")]

\* no handler of the provider is running
ProviderFree == provider.pc \in {"idle", "done"} /\ provider.calls < MaxHandlers

\* a handler begins: the invocation of sendAudioToBackend of the one before is over
Begun(p, handler) ==
    [p EXCEPT !.handler = handler, !.pc = "engine", !.failed = "none", !.calls = @ + 1]

\* startRecording() of the provider
ProviderStart ==
    /\ ProviderFree
    /\ acquired < MaxStreams
    /\ created < MaxEncoders
    /\ Engine([World EXCEPT !.call = NewCall(World, "start")])
    /\ provider' = Begun(provider, "start")
    /\ UNCHANGED <<send, cookies, ui>>

ProviderGetUserMediaRejects ==
    /\ provider.handler = "start" /\ provider.pc = "engine"
    /\ LET w == Reject(World, "start", "DeviceError")
       IN  Engine(w) /\ provider' = Provider_resumed(provider, w.settled)
    /\ UNCHANGED <<send, cookies, ui>>

ProviderGetUserMediaResolves ==
    /\ provider.handler = "start" /\ provider.pc = "engine"
    /\ \E outcome \in Outcomes :
         LET s  == acquired + 1
             w0 == [World EXCEPT !.acquired = s, !.liveTracks = @ \cup {s}]
             w  == StartRecordingBody(w0, s, outcome)
         IN  Engine(w) /\ provider' = Provider_resumed(provider, w.settled)
    /\ UNCHANGED <<send, cookies, ui>>

\* stopRecording() of the provider, up to its await (or, if the engine rejects
\* at once, to its end)
ProviderStop ==
    /\ ProviderFree
    /\ \E oldStopThrows \in BOOLEAN :
         LET w == stopRecording(World, oldStopThrows)
         IN  Engine(w) /\ provider' = Provider_resumed(Begun(provider, "stop"), w.settled)
    /\ UNCHANGED <<send, cookies, ui>>

\* processSegment() of the provider, likewise
ProviderSegment ==
    /\ ProviderFree
    /\ (IF SegmentRefused(World) THEN TRUE ELSE created < MaxEncoders)
    /\ LET w  == processSegment(World)
           p1 == [Begun(provider, "segment") EXCEPT !.recordingStatus = "processing"]
       IN  Engine(w) /\ provider' = Provider_resumed(p1, w.settled)
    /\ UNCHANGED <<send, cookies, ui>>

\* the stop task of encoder e; the handler it resumes validates the
\* configuration and calls sendAudioToBackend with the blob
ProviderEncoderStopTask ==
    /\ \E e \in stopTask, outcome \in Outcomes, blobType \in BlobTypes :
         \E size \in ChunkSizes(World) :
            LET w0 == [World EXCEPT !.stopTask = @ \ {e}]
                w1 == Observed(OnDataAvailable(w0, size), size)
                w  == Dispatch(w1, e, w1.handlers[e], outcome)
                p  == Provider_resumed(provider, w.settled)
            IN  /\ Engine(w)
                /\ provider' = p
                /\ send' = Provider_dispatch(p, send, blobType, cookies)
    /\ UNCHANGED <<cookies, ui>>

\* a step d of the invocation of sendAudioToBackend, and the handler going on
\* if the invocation is done with it; the invocation is then over
ProviderDispatchStep(d) ==
    LET r == Provider_dispatchSettled(World, provider, d)
    IN  /\ Engine([r.w EXCEPT !.stats = stats])
        /\ provider' = r.p
        /\ send' = IF d.pc = "done" THEN SendIdle ELSE d
        /\ UNCHANGED <<cookies, ui>>

ProviderFetchRejects ==
    /\ provider.pc = "dispatch" /\ send.pc = "fetching"
    /\ ProviderDispatchStep(FetchRejected(send))

ProviderFetchResolves ==
    /\ provider.pc = "dispatch" /\ send.pc = "fetching"
    /\ \E status \in Statuses, body \in Bodies :
          ProviderDispatchStep(FetchResolved(send, status, body))

ProviderTextResolves ==
    /\ provider.pc = "dispatch" /\ send.pc = "reading"
    /\ ProviderDispatchStep(TextRead(send))

ProviderTextRejects ==
    /\ provider.pc = "dispatch" /\ send.pc = "reading"
    /\ ProviderDispatchStep(TextRejected(send))

\* the provider is mounted with some configuration, in some build
ProviderInit ==
    /\ InitRecorder
    /\ send = SendIdle
    /\ cookies = {}
    /\ ui = UiMounted
    /\ \E setting \in ProviderSettings, viteApiUrl \in ViteApiUrls :
          provider = [ProviderUnmounted EXCEPT !.selectedTool = setting.selectedTool,
                                               !.platformConfig = setting.platformConfig,
                                               !.viteApiUrl = viteApiUrl]

ProviderNext ==
    \/ ProviderStart
    \/ ProviderGetUserMediaRejects
    \/ ProviderGetUserMediaResolves
    \/ ProviderStop
    \/ ProviderSegment
    \/ ChunkArrives
    \/ ProviderEncoderStopTask
    \/ ProviderFetchRejects
    \/ ProviderFetchResolves
    \/ ProviderTextResolves
    \/ ProviderTextRejects

ProviderSpec == ProviderInit /\ [][ProviderNext]_vars

\* --------------------------------------------------------------- properties

StopResolved == call.op = "stop" /\ call.status = "resolved"
SegmentResolved == call.op = "segment" /\ call.status = "resolved"

\* C1: exactly-once delivery.  When a session of start, successful
\* processSegment calls and a final stopRecording has ended, the chunks of the
\* returned blobs, concatenated, are the chunks appended to the history during
\* the session, each once and in arrival order.
C1_ExactlyOnce ==
    (StopResolved /\ ~segFailed) => Concat(blobs) = appended

\* C2: the blob processSegment returns holds every chunk from the cursor of
\* before the call to the end of the history as the stop event of the old
\* encoder finds it, the chunk flushed by stop() included.
C2_SegmentSeesFlush ==
    SegmentResolved => call.blob = Slice(call.histAt, call.cursorAt)

\* C3: the blob stopRecording returns holds exactly the chunks from
\* processedChunkCount to the end of the history as the stop event finds it,
\* the chunk flushed by stop() included.
C3_StopSeesFlush ==
    StopResolved => call.blob = Slice(call.histAt, call.cursorAt)

\* a stop after an earlier segment (the cursor is not 0) whose blob holds the
\* chunk the encoder flushed on stop()
C3_Witness ==
    /\ StopResolved
    /\ call.cursorAt > 0
    /\ call.flushed # 0
    /\ call.flushed \in Range(call.blob)

\* C4: no re-emission.  Within a session no chunk is in two returned blobs,
\* nor twice in one.
NoChunkTwice(s) == \A i, j \in 1..Len(s) : i # j => s[i] # s[j]

C4_NoReEmission == NoChunkTwice(Concat(blobs))

\* a session that has returned two non-empty blobs, the first from a segment
C4_Witness ==
    /\ Len(blobs) >= 2
    /\ blobs[1] # <<>>
    /\ blobs[2] # <<>>

\* C5: the cursor never passes the end of the history, so the stats never
\* report a negative unprocessedChunks, and totalChunks is the sum of the
\* other two.
C5_CursorInHistory ==
    /\ processedChunkCount <= Len(audioChunks)
    /\ getRecordingStats(World).unprocessedChunks >= 0
    /\ getRecordingStats(World).totalChunks =
         getRecordingStats(World).processedChunks + getRecordingStats(World).unprocessedChunks

\* a recording whose cursor has advanced and which holds unprocessed chunks
C5_Witness ==
    /\ isRecording(World)
    /\ processedChunkCount > 0
    /\ Len(audioChunks) > processedChunkCount

\* the step in which the pending call `op` resolves
Resolves(op) == call.op = op /\ call.status = "pending" /\ call'.status = "resolved"

\* the step in which the pending call `op` is rejected
Rejects(op) == call.op = op /\ call.status = "pending" /\ call'.status = "rejected"

\* the step in which startRecording resets the history and the cursor
StartResets == call.op = "start" /\ call.status = "pending" /\ created' # created

\* C6: cursor monotonicity.  When processSegment or stopRecording resolves,
\* the cursor equals the length of the history; and no step other than the
\* reset of startRecording and the cleanup of stopRecording decreases it.
C6_CursorMonotone ==
    [][ /\ (Resolves("segment") \/ Resolves("stop"))
            => processedChunkCount' = Len(audioChunks')
        /\ ~(StartResets \/ Resolves("stop"))
            => processedChunkCount' >= processedChunkCount ]_vars

\* a segment has resolved with the cursor advanced past chunks
C6_Witness ==
    /\ SegmentResolved
    /\ processedChunkCount > 0
    /\ processedChunkCount = Len(audioChunks)

\* C7: session isolation.  When stopRecording resolves the history is empty
\* and the cursor 0; when a later startRecording resolves the stats are all 0;
\* and no chunk emitted before the last cleanup is in the history or in a
\* blob returned after it.
C7_SessionIsolation ==
    /\ [][ /\ Resolves("stop") => audioChunks' = <<>> /\ processedChunkCount' = 0
           /\ Resolves("start") =>
                getRecordingStats(World)' =
                    [totalChunks |-> 0, processedChunks |-> 0, unprocessedChunks |-> 0]
           /\ (Resolves("segment") \/ Resolves("stop")) =>
                \A c \in Range(call'.blob) : c > stale ]_vars
    /\ [](\A c \in Range(audioChunks) : c > stale)

\* a second session, begun after a stop that returned chunks, holds a chunk
C7_Witness ==
    /\ stale > 0
    /\ isRecording(World)
    /\ audioChunks # <<>>

\* C8: stopRecording called while the engine is not recording is rejected
\* with 'No active recording'.
C8_StopWhenIdleRejected ==
    (call.op = "stop" /\ ~call.wasRecording)
        => call.status = "rejected" /\ call.err = "NoActiveRecording"

\* C9: processSegment called with no encoder, or with an encoder that is not
\* recording, is rejected with 'No active recording' and changes neither the
\* recorder's fields nor any encoder or stream.
C9_SegmentWhenIdleRejected ==
    [][ (ProcessSegmentCall /\ ~isRecording(World)) =>
            /\ call'.status = "rejected"
            /\ call'.err = "NoActiveRecording"
            /\ UNCHANGED <<stream, mediaRecorder, audioChunks, processedChunkCount,
                           recState, recStream, handlers, stopTask, liveTracks>> ]_vars

\* processSegment was rejected while an encoder existed that was not recording
C9_Witness ==
    /\ call.op = "segment"
    /\ call.status = "rejected"
    /\ call.err = "NoActiveRecording"
    /\ mediaRecorder # 0

\* C10: a startRecording that fails on an idle engine leaves the stream, the
\* encoder, the history and the cursor as they were.
C10_FailedStartChangesNothing ==
    [][ (Rejects("start") /\ ~call.wasRecording) =>
            UNCHANGED <<stream, mediaRecorder, audioChunks, processedChunkCount>> ]_vars

\* C11: once stopRecording has resolved the engine holds no stream, no encoder
\* and cursor 0; and whenever the engine is idle (no call pending, not
\* recording) it holds no device handle.
C11_IdleHoldsNoDevice ==
    /\ StopResolved => stream = 0 /\ mediaRecorder = 0 /\ processedChunkCount = 0
    /\ (NoCallPending /\ ~isRecording(World)) => stream = 0

IsPrefix(s, t) == Len(s) <= Len(t) /\ SubSeq(t, 1, Len(s)) = s

\* a step of a processSegment that is not rejected: its call, or a step taken
\* while its promise is pending
SegmentStep ==
    /\ \/ call.op = "segment" /\ call.status = "pending"
       \/ ProcessSegmentCall
    /\ call'.op = "segment"
    /\ call'.status \in {"pending", "resolved"}

\* C12: a successful processSegment neither releases nor re-acquires the
\* device handle: from its call to its resolution the stream is the same and
\* its tracks stay live, no stream is acquired, the history only grows, and on
\* resolution a new encoder, bound to that stream, is recording.
C12_SegmentKeepsDevice ==
    [][ SegmentStep =>
          /\ stream' = stream
          /\ liveTracks' = liveTracks
          /\ acquired' = acquired
          /\ IsPrefix(audioChunks, audioChunks')
          /\ Resolves("segment") =>
                /\ mediaRecorder' # mediaRecorder
                /\ recStream'[mediaRecorder'] = stream'
                /\ recState'[mediaRecorder'] = "recording" ]_vars

\* a segment has resolved on a recorder that holds chunks and a live stream
C12_Witness ==
    /\ SegmentResolved
    /\ audioChunks # <<>>
    /\ stream \in liveTracks
    /\ isRecording(World)

\* C13: from the call of processSegment on a recording engine until its
\* promise resolves, isRecording() is true.
C13_RecordingThroughoutSegment ==
    (call.op = "segment" /\ call.wasRecording /\ call.status \in {"pending", "resolved"})
        => isRecording(World)

\* C14: getRecordingStats changes no field of the recorder, in whatever state
\* it is called, and a second call made right after a first returns the same.
C14_StatsReadOnly ==
    [][ /\ stats' # <<>> =>
              UNCHANGED <<stream, mediaRecorder, audioChunks, processedChunkCount,
                          recState, recStream, handlers, stopTask, liveTracks, call>>
        /\ (stats # <<>> /\ stats' # <<>>) => stats' = stats ]_vars

\* the stats were read in the middle of a session: some chunks processed,
\* some not
C14_Witness ==
    /\ stats # <<>>
    /\ stats[1].processedChunks > 0
    /\ stats[1].unprocessedChunks > 0

\* sendAudioToBackend has been called
Called == send.pc # "idle"

Credentials(d) == SubSeq(d.formData, IF d.platform = "absent" THEN 2 ELSE 3, Len(d.formData))

Names(fd) == [i \in 1..Len(fd) |-> fd[i].name]
Values(fd) == [i \in 1..Len(fd) |-> fd[i].value]

\* C16: with a credential bundle the form holds the audio, the platform field
\* if and only if a platform is given, and exactly the credential fields of
\* the platform's variant, with the bundle's values: trello -> apiKey, token,
\* boardId; linear -> apiKey, workspaceId; asana -> asanaToken
\* (personalAccessToken), asanaProjectId (projectId); and the bundle is one of
\* the supplied ones, unchanged.
C16_CredentialFields ==
    (Called /\ send.config.given) =>
        /\ send.formData[1].name = "audio"
        /\ \A i \in 2..Len(send.formData) : send.formData[i].name # "audio"
        /\ send.platform # "absent" => send.formData[2] = Entry("platform", send.platform)
        /\ send.platform = "absent" =>
              \A i \in 1..Len(send.formData) : send.formData[i].name # "platform"
        /\ Names(Credentials(send)) =
              CASE send.platform = "trello" -> <<"apiKey", "token", "boardId">>
                [] send.platform = "linear" -> <<"apiKey", "workspaceId">>
                [] send.platform = "asana" -> <<"asanaToken", "asanaProjectId">>
                [] OTHER -> <<>>
        /\ (send.platform = "trello" /\ send.config = TrelloBundle) =>
              Values(Credentials(send)) = <<"trello-key", "trello-token", "trello-board">>
        /\ (send.platform = "linear" /\ send.config = LinearBundle) =>
              Values(Credentials(send)) = <<"linear-key", "linear-workspace">>
        /\ (send.platform = "asana" /\ send.config = AsanaBundle) =>
              Values(Credentials(send)) = <<"asana-pat", "asana-project">>
        /\ send.config \in {TrelloBundle, LinearBundle, AsanaBundle}

\* an asana dispatch with the asana bundle: the token travels as asanaToken
C16_Witness ==
    /\ Called
    /\ send.platform = "asana"
    /\ send.config = AsanaBundle
    /\ Entry("asanaToken", "asana-pat") \in Range(send.formData)

\* C17: without a credential bundle the request is still made, and the form
\* holds apiKey, token, boardId, workspaceId, asanaToken and asanaProjectId
\* read from the cookies (the empty string for a cookie that is absent), for
\* every platform.
C17_CookieFallback ==
    (Called /\ ~send.config.given) =>
        /\ send.requests >= 1
        /\ Credentials(send) =
              <<Entry("apiKey", IF "apiKey" \in cookies THEN "cookie-apiKey" ELSE ""),
                Entry("token", IF "token" \in cookies THEN "cookie-token" ELSE ""),
                Entry("boardId", IF "boardId" \in cookies THEN "cookie-boardId" ELSE ""),
                Entry("workspaceId",
                      IF "workspaceId" \in cookies THEN "cookie-workspaceId" ELSE ""),
                Entry("asanaToken",
                      IF "personalAccessToken" \in cookies
                      THEN "cookie-personalAccessToken" ELSE ""),
                Entry("asanaProjectId",
                      IF "projectId" \in cookies THEN "cookie-projectId" ELSE "")>>

\* a dispatch without bundle, for a platform without variant, with one of the
\* asana cookies present and the apiKey cookie absent
C17_Witness ==
    /\ Called
    /\ ~send.config.given
    /\ send.platform = "notion"
    /\ "personalAccessToken" \in cookies
    /\ "apiKey" \notin cookies

\* the body of the answer has been read and found not to be JSON
Unparsable == send.pc = "done" /\ send.parsed /\ ~IsJson(send.response.body)

\* C18: when the backend answers 200 with a body that is not JSON,
\* sendAudioToBackend resolves (to a result that says so) and does not throw.
C18_MalformedTolerated ==
    (Unparsable /\ send.response.status = 200) => send.result.kind = "returns"

\* the backend answered with a status outside 2xx and the body was read
Refused ==
    /\ send.pc = "done"
    /\ send.response # NoResponse
    /\ ~ResponseOk(send.response.status)
    /\ send.result.error # "body read failed"

\* C19: when the backend answers with a status outside 2xx, the function
\* throws a backend error that carries the status and the raw body; it has not
\* tried to parse the body and returns no result.
C19_BackendError ==
    Refused =>
        /\ send.result.kind = "throws"
        /\ send.result.error = "Backend error"
        /\ send.result.status = send.response.status
        /\ send.result.text = send.response.body
        /\ ~send.parsed

\* a 500 whose body is not JSON
C19_Witness ==
    /\ Refused
    /\ send.response = [status |-> 500, body |-> "<html>Bad Gateway</html>"]
    /\ send.result.error = "Backend error"

\* C20: an invocation makes exactly one request, on every path.
C20_OneRequest == Called => send.requests = 1

\* an invocation that ended on a network failure
C20_Witness ==
    /\ send.pc = "done"
    /\ send.result.error = "fetch failed"
    /\ send.requests = 1

\* a failed re-bind: processSegment was rejected because the new encoder could
\* not be constructed or started
RebindFailed ==
    call.op = "segment" /\ call.status = "rejected" /\ call.err = "EncoderError"

\* C24: when processSegment fails because the encoder cannot be re-bound, the
\* cursor is where it stood before the call: it has not passed chunks that
\* were returned to no caller.
C24_FailedRebindKeepsCursor ==
    RebindFailed =>
        /\ processedChunkCount = call.cursorAt
        /\ \A i \in 1..processedChunkCount : audioChunks[i] \in Range(Concat(blobs))

\* C26: between a start and the next stop the history is append-only and in
\* arrival order: no step but the reset of startRecording and the cleanup of
\* stopRecording takes a chunk away or moves one; a chunk arrival appends the
\* new chunk at the end; the history holds no chunk twice and holds the chunks
\* in the order the encoders emitted them.
C26_AppendOnly ==
    /\ [][ ~(StartResets \/ Resolves("stop")) =>
              /\ IsPrefix(audioChunks, audioChunks')
              /\ emitted' # emitted => audioChunks' = Append(audioChunks, emitted') ]_vars
    /\ [](\A i, j \in 1..Len(audioChunks) : i < j => audioChunks[i] < audioChunks[j])

\* a segment has resolved and chunks have arrived on both sides of it
C26_Witness ==
    /\ SegmentResolved
    /\ processedChunkCount > 0
    /\ Len(audioChunks) >= processedChunkCount + 1
    /\ Len(audioChunks) >= 3

StopPending == call.op = "stop" /\ call.status = "pending"

\* C25: every stopRecording settles: once its promise is pending it is
\* eventually resolved or rejected (the event loop runs the encoder's stop
\* task), whatever the state the engine was in when it was called.
C25_StopSettles == StopPending ~> (call.op = "stop" /\ call.status # "pending")

\* an engine promise the component awaits has not settled
EnginePending ==
    \/ ui.starts > 0
    \/ ui.stopLive # {}
    \/ ui.orphan
    \/ SegmentsPending(World) # {}

\* C21: the component's controls are disabled while an engine operation is
\* pending: no click calls startRecording, stopRecording or processSegment of
\* the engine while the promise of an earlier call has not settled.
C21_ControlsDisabledWhilePending ==
    [][ (ClickStart \/ ClickStop \/ ClickSegment) => ~EnginePending ]_vars

\* an encoder that records and whose chunks reach the recorder's history
Live(e) == recState[e] = "recording" /\ recStream[e] \in liveTracks

\* C27: at most one encoder is live at any time, in every run the component
\* can produce.
C27_OneLiveEncoder == Cardinality({e \in Encoders : Live(e)}) <= 1

\* the fields of the recorder and the state of its encoders and streams
EngineState ==
    <<stream, mediaRecorder, audioChunks, processedChunkCount, recState, recStream,
      handlers, stopTask, liveTracks>>

\* a step of an invocation of sendAudioToBackend that has been called
DispatchStep == send.pc \in {"fetching", "reading"} /\ send' # send

\* the dispatch of a segment has failed: the request, the answer or its data
SegmentDispatchFailed ==
    /\ provider.handler = "segment"
    /\ provider.pc = "done"
    /\ provider.failed \in {"dispatch", "backend"}

\* C22: independent failure domains.  No step of sendAudioToBackend, be it a
\* success, a network error, a status outside 2xx or an unparsable body,
\* changes the state of the engine; and when the dispatch of a segment has
\* failed the engine is recording on a live stream.
C22_DispatchLeavesEngine ==
    /\ [][ DispatchStep => UNCHANGED EngineState ]_vars
    /\ [](SegmentDispatchFailed => isRecording(World) /\ stream \in liveTracks)

\* the dispatch of a segment has failed on a network error while the engine
\* holds chunks, some of them behind the cursor
C22_Witness ==
    /\ SegmentDispatchFailed
    /\ provider.failed = "dispatch"
    /\ isRecording(World)
    /\ processedChunkCount > 0
    /\ Len(audioChunks) > processedChunkCount

\* C23: no error is fatal to the controller: once a handler has run to its
\* end, after whatever failure, recordingStatus is 'idle' or 'recording', and
\* not 'processing'.
C23_NeverLeftProcessing ==
    provider.pc = "done" => provider.recordingStatus \in {"idle", "recording"}

\* a field of a credential bundle is there and is not the placeholder
Usable(config, f) ==
    IF f \in DOMAIN config THEN config[f] # "undefined" /\ config[f] # "" ELSE FALSE

\* the credentials the platform needs are in the bundle
Complete(platform, config) ==
    /\ config.given
    /\ platform = "trello" =>
          Usable(config, "apiKey") /\ Usable(config, "boardId") /\ Usable(config, "token")
    /\ platform = "linear" => Usable(config, "apiKey") /\ Usable(config, "workspaceId")

\* C28: the provider calls sendAudioToBackend, from stopRecording or from
\* processSegment, only with a platformConfig and, for trello, with apiKey,
\* boardId and token, for linear, with apiKey and workspaceId, all present and
\* none the string 'undefined'; when the validation fails the handler ends on an
\* error log and nothing is dispatched.
C28_ValidatedBeforeDispatch ==
    /\ send.pc # "idle" =>
          /\ provider.handler \in {"stop", "segment"}
          /\ send.config = provider.platformConfig
          /\ Complete(send.platform, send.config)
    /\ ( /\ provider.handler \in {"stop", "segment"}
         /\ call.status = "resolved"
         /\ ~Complete(PlatformOf(provider), provider.platformConfig) ) =>
          /\ provider.pc = "done"
          /\ provider.failed = "validation"
          /\ send = SendIdle

\* a segment is on its way to the backend with the complete trello bundle
C28_Witness ==
    /\ send.pc = "fetching"
    /\ provider.handler = "segment"
    /\ send.platform = "trello"
    /\ Entry("token", "trello-token") \in Range(send.formData)

\* C30: the provider sends the audio of stopRecording and the audio of
\* processSegment to the same base URL.
C30_SameBaseUrl ==
    (provider.dispatched.stop # "" /\ provider.dispatched.segment # "") =>
        provider.dispatched.stop = provider.dispatched.segment

====
